---- MODULE Spec2Model ----
(***************************************************************************)
(* Content controller of the intelligent-content-orchestrator backend:     *)
(* createContent, updateContent, deleteContent and publishContent, run as  *)
(* concurrent requests against the primary store (prisma.content,          *)
(* prisma.contentVersion), the search index and the cache.  Every `await`  *)
(* of a handler is one step of its request: the step in which the awaited  *)
(* call settles.  A call that is started without await (the analysis)      *)
(* is pending from the step in which the await before it settles.          *)
(***************************************************************************)
EXTENDS Integers, Sequences, FiniteSets, TLC

\* ------------------------------------------------------------------ bounds
\* Number of content ids the store can hold (ids are 1..MaxItems).
MaxItems == 1
\* Number of requests received in one behaviour.
MaxRequests == 2

Ids == 1..MaxItems
\* Requests that can be in flight at the same time.
Slots == {1, 2}

\* ------------------------------------------------------------------ values
Users == {"alice", "bob", "root"}
\* req.user.role, set by the authentication layer.
Role(u) == IF u = "root" THEN "admin" ELSE "user"

Null == "null"
\* new Date(): some non-null timestamp.
Now == "now"

NoTags == [given |-> FALSE, list |-> <<>>]
\* req.body of POST / and PUT /:id (title, body, tags; tags may be absent and
\* may repeat a name).
Inputs ==
  { [title |-> "A", body |-> "a", tags |-> NoTags],
    [title |-> "B", body |-> "b", tags |-> [given |-> TRUE, list |-> <<"x", "y", "x">>]] }
NoInput == [title |-> "-", body |-> "-", tags |-> NoTags]

\* The tag names a request may carry.
TagNames == {"x", "y", "z"}

NoItem == [exists |-> FALSE]
NoDoc == [indexed |-> FALSE]

\* version Int @default(1) of the Content table.
DefaultVersion == 1

VARIABLES
  content,      \* prisma.content: id -> ContentItem row or NoItem
  versions,     \* prisma.contentVersion: the rows, in insertion order
  searchIndex,  \* search service: id -> SearchDocument or NoDoc
  cache,        \* cache service: the keys that hold an entry
  reqs,         \* slot -> the request it serves (handler position and locals)
  last,         \* what the step just taken has sent or logged: a request's response
  started,      \* number of requests received so far
  deleteDone,   \* the ids whose Delete has answered success (observer's record)
  pending,      \* ML service: id -> number of analyzeContent calls not yet settled
  views,        \* prisma.contentView: the rows, in insertion order
  app,          \* server.js: the process (module load, middleware stack, exit code)
  http,         \* the HTTP request a client has sent to the server's port
  page          \* a list/search request and the pagination it answers

vars == <<content, versions, searchIndex, cache, reqs, last, started, deleteDone,
          pending, views, app, http, page>>

\* The cache keys `content:${id}` and 'content:list:*'.
ItemKey(id) == [kind |-> "item", id |-> id]
ListKey == [kind |-> "list", id |-> 0]

\* ------------------------------------------------------------------ helpers
\* The set of names a tag list connects (a relation holds each tag once).
TagSet(list) == {list[i] : i \in DOMAIN list}

Contains(seq, x) == \E i \in DOMAIN seq : seq[i] = x
Count(seq, x) == Cardinality({i \in DOMAIN seq : seq[i] = x})

Idle == [op |-> "none", id |-> 0, user |-> "alice", input |-> NoInput,
         pc |-> "idle", existing |-> NoItem, pre |-> NoItem, data |-> NoItem,
         status |-> 0, effects |-> <<>>, thrown |-> "none", logs |-> <<>>,
         filter |-> "none", total |-> 0, rows |-> {}, cached |-> "none"]

NoResponse == Idle

\* The id the store gives the next created row.
NextId == Cardinality({i \in Ids : content[i] # NoItem}) + 1

\* ------------------------------------------------------------------ pure parts
\* The create data connecting only the first tag of the list.
CreateDataFirstTag(input, userId) ==
  [exists |-> TRUE,
   title |-> input.title,
   body |-> input.body,
   authorId |-> userId,
   status |-> "draft",
   version |-> DefaultVersion,
   tags |-> IF input.tags.given /\ input.tags.list # <<>> THEN {input.tags.list[1]} ELSE {},
   publishedAt |-> Null,
   deletedAt |-> Null]

\* data of prisma.content.create in createContent.
CreateData(input, userId) ==
  [exists |-> TRUE,
   title |-> input.title,
   body |-> input.body,
   authorId |-> userId,
   status |-> "draft",
   version |-> DefaultVersion,
   tags |-> IF input.tags.given THEN TagSet(input.tags.list) ELSE {},
   publishedAt |-> Null,
   deletedAt |-> Null]

\* The permission test with its role comparison inverted.
IsAuthorizedRoleFlipped(item, userId) ==
  ~(item.authorId # userId /\ Role(userId) = "admin")

\* The permission test of updateContent and deleteContent: TRUE when allowed.
IsAuthorized(item, userId) ==
  ~(item.authorId # userId /\ Role(userId) # "admin")

\* data of prisma.contentVersion.create in updateContent.
SnapshotData(id, existingContent, userId) ==
  [contentId |-> id,
   title |-> existingContent.title,
   body |-> existingContent.body,
   version |-> existingContent.version,
   createdBy |-> userId]

\* data of prisma.content.update in updateContent, applied to the stored row.
UpdateData(row, existingContent, input) ==
  [row EXCEPT !.title = input.title,
              !.body = input.body,
              !.version = existingContent.version + 1,
              !.tags = IF input.tags.given THEN TagSet(input.tags.list) ELSE @]

\* data of prisma.content.update in deleteContent, applied to the stored row.
DeleteData(row) ==
  [row EXCEPT !.deletedAt = Now, !.status = "deleted"]

\* The publish data without its timestamp.
PublishDataNoTimestamp(row) ==
  [row EXCEPT !.status = "published"]

\* data of prisma.content.update in publishContent, applied to the stored row.
PublishData(row) ==
  [row EXCEPT !.status = "published", !.publishedAt = Now]

\* Search service: index(doc) and update(doc) store the document of the item,
\* delete(id) removes it.
SearchIndexContent(idx, doc) == [idx EXCEPT ![doc.id] = doc.item]
SearchUpdateContent(idx, doc) == [idx EXCEPT ![doc.id] = doc.item]
SearchDeleteContent(idx, id) == [idx EXCEPT ![id] = NoDoc]

\* ML service: analyzeContent(id) starts a call that settles later.
MlAnalyzeContent(p, id) == [p EXCEPT ![id] = @ + 1]

\* Cache service: del(key) drops the entry of the key; del('content:list:*')
\* drops every list entry.
CacheDel(c, key) == {e \in c : e.key # key}
\* set(key, value, ttl) stores the value under the key; get(key) gives the value
\* of the key, or nothing.
CacheSet(c, key, value) == CacheDel(c, key) \cup {[key |-> key, value |-> value]}
CacheGet(c, key) ==
  IF \E e \in c : e.key = key THEN (CHOOSE e \in c : e.key = key).value ELSE NoItem

\* catch block of a handler: logger.error, then next(new AppError(..., 500)).
Fail(q, call) ==
  [q EXCEPT !.pc = "done", !.status = 500, !.thrown = call,
            !.logs = Append(@, "error")]

\* return next(new AppError(..., code)) before any write.
Reject(q, code) ==
  [q EXCEPT !.pc = "done", !.status = code]

\* logger.info, then res.status(code).json({success: true, data}).
Respond(q, code) ==
  [q EXCEPT !.pc = "done", !.status = code, !.logs = Append(@, "info")]

Issue(q, calls) == [q EXCEPT !.effects = @ \o calls]

\* The handler of slot r goes on to its next await.
Continue(r, q) ==
  /\ reqs' = [reqs EXCEPT ![r] = q]
  /\ last' = NoResponse

\* The handler of slot r has answered: the slot is free again.
Finish(r, q) ==
  /\ reqs' = [reqs EXCEPT ![r] = Idle]
  /\ last' = q

\* ------------------------------------------------------------------ requests
\* The database and the search index outlive the server process: when it starts
\* they are empty, or hold item 1 as an earlier createContent wrote and indexed it.
SeedInput == [title |-> "A", body |-> "a", tags |-> NoTags]
SeedItem == CreateData(SeedInput, "alice")

\* server.js before its module code has run: nothing is registered.
AppOff == [pc |-> "load", stack |-> <<>>, apollo |-> "new", ready |-> <<>>, code |-> 0]
\* No HTTP request has been sent: no layer has run for it (trace), none has
\* answered it (by), no controller was called (handler).
NoHttp ==
  [pc |-> "none", method |-> "GET", path |-> <<>>, layer |-> 0, route |-> 0, step |-> 0,
   err |-> FALSE, trace |-> <<>>, by |-> "none", handler |-> "none", rejected |-> "none"]
\* A number of the JavaScript runtime, as far as the pagination needs it: NaN,
\* Infinity, or the non-negative rational num/den.
NaN == [kind |-> "NaN", num |-> 0, den |-> 1]
Infinity == [kind |-> "Infinity", num |-> 0, den |-> 1]
Number(n, d) == [kind |-> "number", num |-> n, den |-> d]
\* A query parameter that the request does not carry.
Undefined == [given |-> FALSE, text |-> <<>>]
\* No list/search request is being answered.
NoPage ==
  [pc |-> "none", op |-> "none", limit |-> Undefined, total |-> 0, status |-> 0,
   pagination |-> [limit |-> NaN, total |-> 0, pages |-> NaN]]

Init ==
  /\ \E seeded \in BOOLEAN :
       /\ content = [i \in Ids |-> IF seeded /\ i = 1 THEN SeedItem ELSE NoItem]
       /\ searchIndex = [i \in Ids |-> IF seeded /\ i = 1 THEN SeedItem ELSE NoDoc]
  /\ versions = <<>>
  /\ cache = {}
  /\ reqs = [r \in Slots |-> Idle]
  /\ last = NoResponse
  /\ started = 0
  /\ deleteDone = {}
  /\ pending = [i \in Ids |-> 0]
  /\ views = <<>>
  /\ app = AppOff
  /\ http = NoHttp
  /\ page = NoPage

CreatesStarted ==
  Cardinality({i \in Ids : content[i] # NoItem})
  + Cardinality({r \in Slots : reqs[r].op = "create" /\ reqs[r].pc = "write"})

\* A request reaches its handler: the slot is free and is the first free one.
Arrives(r) ==
  /\ reqs[r].pc = "idle"
  /\ \A s \in Slots : s < r => reqs[s].pc # "idle"
  /\ UNCHANGED <<content, versions, searchIndex, cache, deleteDone, pending, views, app, http, page>>

\* POST /
StartCreate(r) ==
  /\ Arrives(r)
  /\ CreatesStarted < MaxItems
  /\ \E u \in Users, inp \in Inputs :
       Continue(r, [Idle EXCEPT !.op = "create", !.user = u, !.input = inp, !.pc = "write"])

\* PUT /:id
StartUpdate(r) ==
  /\ Arrives(r)
  /\ \E u \in Users, i \in Ids, inp \in Inputs :
       Continue(r, [Idle EXCEPT !.op = "update", !.id = i, !.user = u, !.input = inp, !.pc = "load"])

\* DELETE /:id
StartDelete(r) ==
  /\ Arrives(r)
  /\ \E u \in Users, i \in Ids :
       Continue(r, [Idle EXCEPT !.op = "delete", !.id = i, !.user = u, !.pc = "load"])

\* POST /:id/publish
StartPublish(r) ==
  /\ Arrives(r)
  /\ \E u \in Users, i \in Ids :
       Continue(r, [Idle EXCEPT !.op = "publish", !.id = i, !.user = u, !.pc = "write"])

\* A mutating request reaches its handler.
Start(r) ==
  /\ started < MaxRequests
  /\ started' = started + 1
  /\ \/ StartCreate(r)
     \/ StartUpdate(r)
     \/ StartDelete(r)
     \/ StartPublish(r)

\* ------------------------------------------------------------------ createContent
\* The create step with the analysis dispatched before the row is written.
CreateWriteAnalyzeFirst(r) ==
  LET q == Issue(reqs[r], <<"analyze">>) IN
  /\ reqs[r].op = "create" /\ reqs[r].pc = "write"
  /\ \/ /\ content' = [content EXCEPT ![NextId] = CreateData(q.input, q.user)]
        /\ Continue(r, [Issue(q, <<"item.create">>) EXCEPT
                !.id = NextId, !.data = CreateData(q.input, q.user), !.pc = "search"])
        /\ pending' = MlAnalyzeContent(pending, NextId)
     \/ /\ Finish(r, Fail(q, "store"))
        /\ UNCHANGED <<content, pending>>
  /\ UNCHANGED <<versions, searchIndex, cache, started, deleteDone, views, app, http, page>>

\* await prisma.content.create(...); when it resolves the handler goes on to
\* mlService.analyzeContent(content.id), which starts the analysis call, and to
\* the await of the search call.
CreateWrite(r) ==
  LET q == reqs[r] IN
  /\ q.op = "create" /\ q.pc = "write"
  /\ \/ /\ content' = [content EXCEPT ![NextId] = CreateData(q.input, q.user)]
        /\ Continue(r, [Issue(q, <<"item.create">>) EXCEPT
                !.id = NextId, !.data = CreateData(q.input, q.user), !.pc = "search"])
        /\ pending' = MlAnalyzeContent(pending, NextId)
     \/ /\ Finish(r, Fail(q, "store"))
        /\ UNCHANGED <<content, pending>>
  /\ UNCHANGED <<versions, searchIndex, cache, started, deleteDone, views, app, http, page>>

\* await searchService.indexContent(content), issued after the analysis dispatch
\* (the request's effects list both, in issue order, once this call settles).
CreateIndex(r) ==
  LET q == Issue(reqs[r], <<"analyze", "search.index">>) IN
  /\ reqs[r].op = "create" /\ reqs[r].pc = "search"
  /\ \/ /\ searchIndex' = SearchIndexContent(searchIndex, [id |-> q.id, item |-> q.data])
        /\ Continue(r, [q EXCEPT !.pc = "cacheList"])
     \/ /\ Finish(r, Fail(q, "search"))
        /\ UNCHANGED searchIndex
  /\ UNCHANGED <<content, versions, cache, started, deleteDone, pending, views, app, http, page>>

\* await cacheService.del('content:list:*'); logger.info; res.status(201).json(...)
CreateCacheList(r) ==
  LET q == Issue(reqs[r], <<"cache.list">>) IN
  /\ reqs[r].op = "create" /\ reqs[r].pc = "cacheList"
  /\ \/ /\ cache' = CacheDel(cache, ListKey)
        /\ Finish(r, Respond(q, 201))
     \/ /\ Finish(r, Fail(q, "cache"))
        /\ UNCHANGED cache
  /\ UNCHANGED <<content, versions, searchIndex, started, deleteDone, pending, views, app, http, page>>

\* ------------------------------------------------------------------ updateContent
\* The load step going on to the item write without the snapshot.
UpdateLoadSkipsSnapshot(r) ==
  LET q == reqs[r] IN
  /\ q.op = "update" /\ q.pc = "load"
  /\ \/ /\ content[q.id] = NoItem
        /\ Finish(r, Reject(q, 404))
     \/ /\ content[q.id] # NoItem
        /\ ~IsAuthorized(content[q.id], q.user)
        /\ Finish(r, Reject(q, 403))
     \/ /\ content[q.id] # NoItem
        /\ IsAuthorized(content[q.id], q.user)
        /\ Continue(r, [q EXCEPT !.existing = content[q.id], !.pc = "write"])
     \/ Finish(r, Fail(q, "store"))
  /\ UNCHANGED <<content, versions, searchIndex, cache, started, deleteDone, pending, views, app, http, page>>

\* await prisma.content.findUnique({where: {id}}), then the 404 and 403 tests.
UpdateLoad(r) ==
  LET q == reqs[r] IN
  /\ q.op = "update" /\ q.pc = "load"
  /\ \/ /\ content[q.id] = NoItem
        /\ Finish(r, Reject(q, 404))
     \/ /\ content[q.id] # NoItem
        /\ ~IsAuthorized(content[q.id], q.user)
        /\ Finish(r, Reject(q, 403))
     \/ /\ content[q.id] # NoItem
        /\ IsAuthorized(content[q.id], q.user)
        /\ Continue(r, [q EXCEPT !.existing = content[q.id], !.pc = "snapshot"])
     \/ Finish(r, Fail(q, "store"))
  /\ UNCHANGED <<content, versions, searchIndex, cache, started, deleteDone, pending, views, app, http, page>>

\* await prisma.contentVersion.create(...)
UpdateSnapshot(r) ==
  LET q == reqs[r] IN
  /\ q.op = "update" /\ q.pc = "snapshot"
  /\ \/ /\ versions' = Append(versions, SnapshotData(q.id, q.existing, q.user))
        /\ Continue(r, [Issue(q, <<"version.create">>) EXCEPT !.pc = "write"])
     \/ /\ Finish(r, Fail(q, "store"))
        /\ UNCHANGED versions
  /\ UNCHANGED <<content, searchIndex, cache, started, deleteDone, pending, views, app, http, page>>

\* await prisma.content.update({where: {id}, data: {..., version: existingContent.version + 1}});
\* when it resolves the handler goes on to mlService.analyzeContent(content.id),
\* which starts the analysis call, and to the await of the search call.
UpdateWrite(r) ==
  LET q == reqs[r]
      row == UpdateData(content[q.id], q.existing, q.input) IN
  /\ q.op = "update" /\ q.pc = "write"
  /\ \/ /\ content' = [content EXCEPT ![q.id] = row]
        /\ Continue(r, [Issue(q, <<"item.update">>) EXCEPT
                !.pre = content[q.id], !.data = row, !.pc = "search"])
        /\ pending' = MlAnalyzeContent(pending, q.id)
     \/ /\ Finish(r, Fail(q, "store"))
        /\ UNCHANGED <<content, pending>>
  /\ UNCHANGED <<versions, searchIndex, cache, started, deleteDone, views, app, http, page>>

\* The search step with the item cache cleared before the index is updated.
UpdateSearchAfterCache(r) ==
  LET q == Issue(reqs[r], <<"cache.item", "analyze", "search.update">>) IN
  /\ reqs[r].op = "update" /\ reqs[r].pc = "search"
  /\ \/ /\ searchIndex' = SearchUpdateContent(searchIndex, [id |-> q.id, item |-> q.data])
        /\ cache' = CacheDel(cache, ItemKey(q.id))
        /\ Continue(r, [q EXCEPT !.pc = "cacheList"])
     \/ /\ Finish(r, Fail(q, "search"))
        /\ UNCHANGED <<searchIndex, cache>>
  /\ UNCHANGED <<content, versions, started, deleteDone, pending, views, app, http, page>>

\* The search step with the analysis call awaited inside the try block.
UpdateSearchAwaitsAnalysis(r) ==
  LET a == Issue(reqs[r], <<"analyze">>)
      q == Issue(a, <<"search.update">>) IN
  /\ reqs[r].op = "update" /\ reqs[r].pc = "search"
  /\ \/ /\ searchIndex' = SearchUpdateContent(searchIndex, [id |-> q.id, item |-> q.data])
        /\ Continue(r, [q EXCEPT !.pc = "cacheItem"])
     \/ /\ Finish(r, Fail(q, "search"))
        /\ UNCHANGED searchIndex
     \/ /\ Finish(r, Fail(a, "analyze"))
        /\ UNCHANGED searchIndex
  /\ UNCHANGED <<content, versions, cache, started, deleteDone, pending, views, app, http, page>>

\* await searchService.updateContent(content), issued after the analysis dispatch
\* (the request's effects list both, in issue order, once this call settles).
UpdateSearch(r) ==
  LET q == Issue(reqs[r], <<"analyze", "search.update">>) IN
  /\ reqs[r].op = "update" /\ reqs[r].pc = "search"
  /\ \/ /\ searchIndex' = SearchUpdateContent(searchIndex, [id |-> q.id, item |-> q.data])
        /\ Continue(r, [q EXCEPT !.pc = "cacheItem"])
     \/ /\ Finish(r, Fail(q, "search"))
        /\ UNCHANGED searchIndex
  /\ UNCHANGED <<content, versions, cache, started, deleteDone, pending, views, app, http, page>>

\* await cacheService.del(`content:${id}`)
UpdateCacheItem(r) ==
  LET q == Issue(reqs[r], <<"cache.item">>) IN
  /\ reqs[r].op = "update" /\ reqs[r].pc = "cacheItem"
  /\ \/ /\ cache' = CacheDel(cache, ItemKey(q.id))
        /\ Continue(r, [q EXCEPT !.pc = "cacheList"])
     \/ /\ Finish(r, Fail(q, "cache"))
        /\ UNCHANGED cache
  /\ UNCHANGED <<content, versions, searchIndex, started, deleteDone, pending, views, app, http, page>>

\* await cacheService.del('content:list:*'); logger.info; res.json(...)
UpdateCacheList(r) ==
  LET q == Issue(reqs[r], <<"cache.list">>) IN
  /\ reqs[r].op = "update" /\ reqs[r].pc = "cacheList"
  /\ \/ /\ cache' = CacheDel(cache, ListKey)
        /\ Finish(r, Respond(q, 200))
     \/ /\ Finish(r, Fail(q, "cache"))
        /\ UNCHANGED cache
  /\ UNCHANGED <<content, versions, searchIndex, started, deleteDone, pending, views, app, http, page>>

\* ------------------------------------------------------------------ deleteContent
\* await prisma.content.findUnique({where: {id}}), then the 404 and 403 tests.
DeleteLoad(r) ==
  LET q == reqs[r] IN
  /\ q.op = "delete" /\ q.pc = "load"
  /\ \/ /\ content[q.id] = NoItem
        /\ Finish(r, Reject(q, 404))
     \/ /\ content[q.id] # NoItem
        /\ ~IsAuthorized(content[q.id], q.user)
        /\ Finish(r, Reject(q, 403))
     \/ /\ content[q.id] # NoItem
        /\ IsAuthorized(content[q.id], q.user)
        /\ Continue(r, [q EXCEPT !.existing = content[q.id], !.pc = "write"])
     \/ Finish(r, Fail(q, "store"))
  /\ UNCHANGED <<content, versions, searchIndex, cache, started, deleteDone, pending, views, app, http, page>>

\* await prisma.content.update({where: {id}, data: {deletedAt, status: 'deleted'}})
DeleteWrite(r) ==
  LET q == reqs[r] IN
  /\ q.op = "delete" /\ q.pc = "write"
  /\ \/ /\ content' = [content EXCEPT ![q.id] = DeleteData(content[q.id])]
        /\ Continue(r, [Issue(q, <<"item.update">>) EXCEPT
                !.pre = content[q.id], !.pc = "search"])
     \/ /\ Finish(r, Fail(q, "store"))
        /\ UNCHANGED content
  /\ UNCHANGED <<versions, searchIndex, cache, started, deleteDone, pending, views, app, http, page>>

\* await searchService.deleteContent(id)
DeleteSearch(r) ==
  LET q == Issue(reqs[r], <<"search.delete">>) IN
  /\ reqs[r].op = "delete" /\ reqs[r].pc = "search"
  /\ \/ /\ searchIndex' = SearchDeleteContent(searchIndex, q.id)
        /\ Continue(r, [q EXCEPT !.pc = "cacheItem"])
     \/ /\ Finish(r, Fail(q, "search"))
        /\ UNCHANGED searchIndex
  /\ UNCHANGED <<content, versions, cache, started, deleteDone, pending, views, app, http, page>>

\* await cacheService.del(`content:${id}`)
DeleteCacheItem(r) ==
  LET q == Issue(reqs[r], <<"cache.item">>) IN
  /\ reqs[r].op = "delete" /\ reqs[r].pc = "cacheItem"
  /\ \/ /\ cache' = CacheDel(cache, ItemKey(q.id))
        /\ Continue(r, [q EXCEPT !.pc = "cacheList"])
     \/ /\ Finish(r, Fail(q, "cache"))
        /\ UNCHANGED cache
  /\ UNCHANGED <<content, versions, searchIndex, started, deleteDone, pending, views, app, http, page>>

\* await cacheService.del('content:list:*'); logger.info; res.json(...)
DeleteCacheList(r) ==
  LET q == Issue(reqs[r], <<"cache.list">>) IN
  /\ reqs[r].op = "delete" /\ reqs[r].pc = "cacheList"
  /\ \/ /\ cache' = CacheDel(cache, ListKey)
        /\ Finish(r, Respond(q, 200))
        /\ deleteDone' = deleteDone \cup {q.id}
     \/ /\ Finish(r, Fail(q, "cache"))
        /\ UNCHANGED <<cache, deleteDone>>
  /\ UNCHANGED <<content, versions, searchIndex, started, pending, views, app, http, page>>

\* ------------------------------------------------------------------ publishContent
\* await prisma.content.update({where: {id}, data: {status: 'published', publishedAt}});
\* the update of an id that has no row throws.
PublishWrite(r) ==
  LET q == reqs[r] IN
  /\ q.op = "publish" /\ q.pc = "write"
  /\ \/ /\ content[q.id] # NoItem
        /\ content' = [content EXCEPT ![q.id] = PublishData(content[q.id])]
        /\ Continue(r, [Issue(q, <<"item.update">>) EXCEPT
                !.pre = content[q.id], !.data = PublishData(content[q.id]), !.pc = "notify"])
     \/ /\ Finish(r, Fail(q, "store"))
        /\ UNCHANGED content
  /\ UNCHANGED <<versions, searchIndex, cache, started, deleteDone, pending, views, app, http, page>>

\* await notificationService.notifyContentPublished(content)
PublishNotify(r) ==
  LET q == Issue(reqs[r], <<"notify">>) IN
  /\ reqs[r].op = "publish" /\ reqs[r].pc = "notify"
  /\ \/ Continue(r, [q EXCEPT !.pc = "cacheItem"])
     \/ Finish(r, Fail(q, "notify"))
  /\ UNCHANGED <<content, versions, searchIndex, cache, started, deleteDone, pending, views, app, http, page>>

\* await cacheService.del(`content:${id}`)
PublishCacheItem(r) ==
  LET q == Issue(reqs[r], <<"cache.item">>) IN
  /\ reqs[r].op = "publish" /\ reqs[r].pc = "cacheItem"
  /\ \/ /\ cache' = CacheDel(cache, ItemKey(q.id))
        /\ Continue(r, [q EXCEPT !.pc = "cacheList"])
     \/ /\ Finish(r, Fail(q, "cache"))
        /\ UNCHANGED cache
  /\ UNCHANGED <<content, versions, searchIndex, started, deleteDone, pending, views, app, http, page>>

\* await cacheService.del('content:list:*'); logger.info; res.json(...)
PublishCacheList(r) ==
  LET q == Issue(reqs[r], <<"cache.list">>) IN
  /\ reqs[r].op = "publish" /\ reqs[r].pc = "cacheList"
  /\ \/ /\ cache' = CacheDel(cache, ListKey)
        /\ Finish(r, Respond(q, 200))
     \/ /\ Finish(r, Fail(q, "cache"))
        /\ UNCHANGED cache
  /\ UNCHANGED <<content, versions, searchIndex, started, deleteDone, pending, views, app, http, page>>

\* ------------------------------------------------------------------ specification
Next ==
  \E r \in Slots :
    \/ Start(r)
    \/ CreateWrite(r)
    \/ CreateIndex(r)
    \/ CreateCacheList(r)
    \/ UpdateLoad(r)
    \/ UpdateSnapshot(r)
    \/ UpdateWrite(r)
    \/ UpdateSearch(r)
    \/ UpdateCacheItem(r)
    \/ UpdateCacheList(r)
    \/ DeleteLoad(r)
    \/ DeleteWrite(r)
    \/ DeleteSearch(r)
    \/ DeleteCacheItem(r)
    \/ DeleteCacheList(r)
    \/ PublishWrite(r)
    \/ PublishNotify(r)
    \/ PublishCacheItem(r)
    \/ PublishCacheList(r)

Spec == Init /\ [][Next]_vars

\* ------------------------------------------------------------------ analysis calls
\* The promise of an analyzeContent call resolves: no handler is attached to it.
AnalysisResolve(i) ==
  /\ pending[i] > 0
  /\ pending' = [pending EXCEPT ![i] = @ - 1]
  /\ last' = NoResponse
  /\ UNCHANGED <<content, versions, searchIndex, cache, reqs, started, deleteDone,
                 views, app, http, page>>

\* No response, and the one line logger.error('Error analyzing content:', error).
AnalysisErrorLogged(i) == [NoResponse EXCEPT !.id = i, !.logs = <<"analysis error">>]

\* The promise rejects: .catch(error => logger.error('Error analyzing content:', error))
AnalysisReject(i) ==
  /\ pending[i] > 0
  /\ pending' = [pending EXCEPT ![i] = @ - 1]
  /\ last' = AnalysisErrorLogged(i)
  /\ UNCHANGED <<content, versions, searchIndex, cache, reqs, started, deleteDone,
                 views, app, http, page>>

\* A Create or an Update reaches its handler.
StartAnalysed(r) ==
  /\ started < MaxRequests
  /\ started' = started + 1
  /\ \/ StartCreate(r)
     \/ StartUpdate(r)

\* createContent and updateContent, one request at a time, with the ML service
\* settling their calls at any moment, before or after the response.
NextAnalysis ==
  \/ \E r \in {1} :
       \/ StartAnalysed(r)
       \/ CreateWrite(r)
       \/ CreateIndex(r)
       \/ CreateCacheList(r)
       \/ UpdateLoad(r)
       \/ UpdateSnapshot(r)
       \/ UpdateWrite(r)
       \/ UpdateSearch(r)
       \/ UpdateCacheItem(r)
       \/ UpdateCacheList(r)
  \/ \E i \in Ids :
       \/ AnalysisResolve(i)
       \/ AnalysisReject(i)

SpecAnalysis == Init /\ [][NextAnalysis]_vars

\* ------------------------------------------------------------------ awaited calls
\* The calls a handler issues at an await that follows its store write.
AwaitedCalls(q) ==
  CASE q.pc = "search" /\ q.op = "create" -> <<"analyze", "search.index">>
    [] q.pc = "search" /\ q.op = "update" -> <<"analyze", "search.update">>
    [] q.pc = "search" /\ q.op = "delete" -> <<"search.delete">>
    [] q.pc = "notify" -> <<"notify">>
    [] q.pc = "cacheItem" -> <<"cache.item">>
    [] q.pc = "cacheList" -> <<"cache.list">>
    [] OTHER -> <<>>

\* The promise of an awaited search, notification or cache call never settles:
\* the handler stays at that await, neither its try nor its catch goes on.
Hang(r) ==
  LET q == reqs[r] IN
  /\ q.pc \in {"search", "notify", "cacheItem", "cacheList"}
  /\ Continue(r, [Issue(q, AwaitedCalls(q)) EXCEPT !.pc = "hung"])
  /\ UNCHANGED <<content, versions, searchIndex, cache, started, deleteDone,
                 pending, views, app, http, page>>

\* The steps a handler takes when the call it awaits settles.
Resume(r) ==
  \/ CreateWrite(r)
  \/ CreateIndex(r)
  \/ CreateCacheList(r)
  \/ UpdateLoad(r)
  \/ UpdateSnapshot(r)
  \/ UpdateWrite(r)
  \/ UpdateSearch(r)
  \/ UpdateCacheItem(r)
  \/ UpdateCacheList(r)
  \/ DeleteLoad(r)
  \/ DeleteWrite(r)
  \/ DeleteSearch(r)
  \/ DeleteCacheItem(r)
  \/ DeleteCacheList(r)
  \/ PublishWrite(r)
  \/ PublishNotify(r)
  \/ PublishCacheItem(r)
  \/ PublishCacheList(r)

NextLive ==
  \E r \in Slots :
    \/ Start(r)
    \/ Resume(r)
    \/ Hang(r)

\* The event loop runs every handler whose awaited call has settled.
SpecLive == Init /\ [][NextLive]_vars /\ \A r \in Slots : WF_vars(Resume(r))

\* ------------------------------------------------------------------ getContentById
\* GET /:id
StartRead(r) ==
  /\ Arrives(r)
  /\ \E u \in Users, i \in Ids :
       Continue(r, [Idle EXCEPT !.op = "read", !.id = i, !.user = u, !.pc = "load"])

\* data of prisma.contentView.create in getContentById.
ViewData(id, userId) == [contentId |-> id, userId |-> userId]

\* res.json({success: true, data: content}): nothing is logged.
ReadRespond(q) ==
  [q EXCEPT !.pc = "done", !.status = 200, !.data = q.existing]

\* The load step without its not-found test.
ReadLoadNoNotFound(r) ==
  LET q == reqs[r] IN
  /\ q.op = "read" /\ q.pc = "load"
  /\ \/ Continue(r, [q EXCEPT !.existing = content[q.id], !.pc = "view"])
     \/ Finish(r, Fail(q, "store"))
  /\ UNCHANGED <<content, versions, searchIndex, cache, started, deleteDone, pending, views, app, http, page>>

\* await prisma.content.findUnique({where: {id}, include: ...}), then the 404 test.
ReadLoad(r) ==
  LET q == reqs[r] IN
  /\ q.op = "read" /\ q.pc = "load"
  /\ \/ /\ content[q.id] = NoItem
        /\ Finish(r, Reject(q, 404))
     \/ /\ content[q.id] # NoItem
        /\ Continue(r, [q EXCEPT !.existing = content[q.id], !.pc = "view"])
     \/ Finish(r, Fail(q, "store"))
  /\ UNCHANGED <<content, versions, searchIndex, cache, started, deleteDone, pending, views, app, http, page>>

\* The view step with the rejection of the insert reaching the catch block.
ReadViewFailureThrows(r) ==
  LET q == Issue(reqs[r], <<"view.create">>) IN
  /\ reqs[r].op = "read" /\ reqs[r].pc = "view"
  /\ \/ /\ views' = Append(views, ViewData(q.id, q.user))
        /\ Finish(r, ReadRespond(q))
     \/ /\ Finish(r, Fail(q, "view"))
        /\ UNCHANGED views
  /\ UNCHANGED <<content, versions, searchIndex, cache, started, deleteDone, pending, app, http, page>>

\* cacheMiddleware(300) on the way out: the body res.json sends for a request
\* that missed the cache is stored under the item's key.
Populate(c, q) ==
  IF q.cached = "miss" THEN CacheSet(c, ItemKey(q.id), q.existing) ELSE c

\* await prisma.contentView.create(...).catch(() => {}); res.json(...)
ReadView(r) ==
  LET q == Issue(reqs[r], <<"view.create">>) IN
  /\ reqs[r].op = "read" /\ reqs[r].pc = "view"
  /\ \/ /\ views' = Append(views, ViewData(q.id, q.user))
        /\ Finish(r, ReadRespond(q))
     \/ /\ Finish(r, [ReadRespond(q) EXCEPT !.thrown = "view"])
        /\ UNCHANGED views
  /\ cache' = Populate(cache, q)
  /\ UNCHANGED <<content, versions, searchIndex, started, deleteDone, pending, app, http, page>>

\* A Read, an Update or a Delete reaches its handler.
StartById(r) ==
  /\ started < MaxRequests
  /\ started' = started + 1
  /\ \/ StartRead(r)
     \/ StartUpdate(r)
     \/ StartDelete(r)

\* getContentById, updateContent and deleteContent as concurrent requests.
NextRead ==
  \E r \in Slots :
    \/ StartById(r)
    \/ ReadLoad(r)
    \/ ReadView(r)
    \/ UpdateLoad(r)
    \/ UpdateSnapshot(r)
    \/ UpdateWrite(r)
    \/ UpdateSearch(r)
    \/ UpdateCacheItem(r)
    \/ UpdateCacheList(r)
    \/ DeleteLoad(r)
    \/ DeleteWrite(r)
    \/ DeleteSearch(r)
    \/ DeleteCacheItem(r)
    \/ DeleteCacheList(r)

SpecRead == Init /\ [][NextRead]_vars

\* ------------------------------------------------------------------ server.js
\* The handlers the content controller exports.
ControllerExports ==
  {"createContent", "getAllContent", "getContentById", "updateContent", "deleteContent",
   "searchContent", "publishContent", "getVersionHistory", "getContentAnalytics"}

\* contentController.<name> as the routes file reads it: the exported handler,
\* or undefined for a name the controller does not export.
Controller(name) == IF name \in ControllerExports THEN name ELSE "undefined"

\* The routes of routes/content.routes, in the order the router registers them:
\* method, path pattern, and the middleware chain ending in the controller.
ContentRoutes ==
  << [method |-> "POST", pattern |-> <<>>,
      chain |-> <<"validateContent", "checkPermission", Controller("createContent")>>],
     [method |-> "GET", pattern |-> <<>>,
      chain |-> <<"cacheMiddleware", Controller("getAllContent")>>],
     [method |-> "GET", pattern |-> <<":id">>,
      chain |-> <<"cacheMiddleware", Controller("getContentById")>>],
     [method |-> "PUT", pattern |-> <<":id">>,
      chain |-> <<"validateContent", "checkPermission", Controller("updateContent")>>],
     [method |-> "DELETE", pattern |-> <<":id">>,
      chain |-> <<"checkPermission", Controller("deleteContent")>>],
     [method |-> "GET", pattern |-> <<"search">>,
      chain |-> <<Controller("searchContent")>>],
     [method |-> "POST", pattern |-> <<":id", "publish">>,
      chain |-> <<"checkPermission", Controller("publishContent")>>],
     [method |-> "POST", pattern |-> <<":id", "archive">>,
      chain |-> <<"checkPermission", Controller("archiveContent")>>],
     [method |-> "GET", pattern |-> <<":id", "versions">>,
      chain |-> <<Controller("getVersionHistory")>>],
     [method |-> "POST", pattern |-> <<":id", "restore", ":versionId">>,
      chain |-> <<"checkPermission", Controller("restoreVersion")>>],
     [method |-> "POST", pattern |-> <<":id", "duplicate">>,
      chain |-> <<"checkPermission", Controller("duplicateContent")>>],
     [method |-> "GET", pattern |-> <<":id", "analytics">>,
      chain |-> <<Controller("getContentAnalytics")>>] >>

\* Route parameters: a segment of a pattern that matches any path segment.
Params == {":id", ":versionId"}

ContentMount == <<"api", "v1", "content">>

Methods == {"GET", "POST", "PUT", "DELETE"}
SearchPath == ContentMount \o <<"search">>
GraphqlPath == <<"graphql">>
\* The request paths: /graphql, /health, an unknown path, /api/v1/content,
\* /api/v1/content/search, /api/v1/content/<id>, /api/v1/content/<id>/publish.
Paths ==
  {GraphqlPath, <<"health">>, <<"unknown">>, ContentMount, SearchPath}
  \cup {ContentMount \o <<ToString(i)>> : i \in Ids}
  \cup {ContentMount \o <<ToString(i), "publish">> : i \in Ids}

IsPrefix(p, path) ==
  /\ Len(p) <= Len(path)
  /\ \A k \in 1..Len(p) : path[k] = p[k]

\* A route matches when every segment of its pattern is a parameter or equals
\* the path's segment, and the lengths agree.
MatchRoute(route, method, rest) ==
  /\ route.method = method
  /\ Len(route.pattern) = Len(rest)
  /\ \A k \in 1..Len(rest) : route.pattern[k] \in Params \/ route.pattern[k] = rest[k]

\* The requests that the router's table gives to the controller `name`.
RoutedTo(name, method, path) ==
  /\ IsPrefix(ContentMount, path)
  /\ \E k \in DOMAIN ContentRoutes :
       /\ ContentRoutes[k].chain[Len(ContentRoutes[k].chain)] = name
       /\ MatchRoute(ContentRoutes[k], method,
                     SubSeq(path, Len(ContentMount) + 1, Len(path)))

\* router.METHOD of the framework throws when the last argument of a route is
\* not a function.
RegistrationThrows ==
  \E k \in DOMAIN ContentRoutes : Contains(ContentRoutes[k].chain, "undefined")

\* Module load.  require('./routes/content.routes') is among the first
\* statements of server.js and registers the routes: the registration of a route whose handler
\* is undefined throws, the exception is uncaught and the process ends with exit
\* code 1.  express(), every app.use, apolloServer.start(), the signal handlers
\* and startServer() come after that statement and are never run.
LoadModule ==
  /\ app.pc = "load"
  /\ RegistrationThrows
  /\ app' = [app EXCEPT !.pc = "exited", !.code = 1]
  /\ UNCHANGED <<content, versions, searchIndex, cache, reqs, last, started, deleteDone,
                 pending, views, http, page>>

\* A client sends a request to the server's port.  httpServer.listen is called
\* only by startServer, after module load: while the module loads and after the
\* process has ended no socket listens and the connection is refused.
Connect ==
  /\ app.pc \in {"load", "exited"}
  /\ started < MaxRequests
  /\ started' = started + 1
  /\ \E m \in Methods, p \in Paths :
       http' = [NoHttp EXCEPT !.pc = "refused", !.method = m, !.path = p]
  /\ UNCHANGED <<content, versions, searchIndex, cache, reqs, last, deleteDone,
                 pending, views, app, page>>

NextApp ==
  \/ LoadModule
  \/ Connect

SpecApp == Init /\ [][NextApp]_vars

\* ------------------------------------------------------------------ updates only
\* Number of Update requests received in one behaviour of SpecUpdates.
MaxUpdates == 3

StartUpdating(r) ==
  /\ started < MaxUpdates
  /\ started' = started + 1
  /\ StartUpdate(r)

\* updateContent alone, as concurrent requests on the stored items.
NextUpdates ==
  \E r \in Slots :
    \/ StartUpdating(r)
    \/ UpdateLoad(r)
    \/ UpdateSnapshot(r)
    \/ UpdateWrite(r)
    \/ UpdateSearch(r)
    \/ UpdateCacheItem(r)
    \/ UpdateCacheList(r)

SpecUpdates == Init /\ [][NextUpdates]_vars

\* ------------------------------------------------------------------ pagination
\* Largest total the store or the search service reports.
MaxTotal == 5
\* Longest text of the limit query parameter.
MaxLimitLen == 3
\* limit = 20 of the destructuring of req.query.
DefaultLimit == 20

Digits == {"0", "1", "2", "5"}
\* The characters of a limit parameter: digits, the decimal point, a letter.
Chars == Digits \cup {".", "a"}
DigitValue(c) == CASE c = "0" -> 0 [] c = "1" -> 1 [] c = "2" -> 2 [] c = "5" -> 5

\* The limit of req.query: absent, or a text.
LimitQueries ==
  {Undefined}
  \cup {[given |-> TRUE, text |-> t] : t \in UNION {[1..n -> Chars] : n \in 0..MaxLimitLen}}

RECURSIVE DecimalValue(_)
\* The value of a run of decimal digits.
DecimalValue(t) ==
  IF t = <<>> THEN 0
  ELSE DecimalValue(SubSeq(t, 1, Len(t) - 1)) * 10 + DigitValue(t[Len(t)])

RECURSIVE Power10(_)
Power10(n) == IF n = 0 THEN 1 ELSE 10 * Power10(n - 1)

\* parseInt(text): the longest prefix of digits, NaN when there is none.
ParseIntText(t) ==
  LET k == CHOOSE n \in 0..Len(t) :
             /\ \A j \in 1..n : t[j] \in Digits
             /\ n < Len(t) => t[n + 1] \notin Digits
  IN IF k = 0 THEN NaN ELSE Number(DecimalValue(SubSeq(t, 1, k)), 1)

\* The text as a number (the coercion of the division): the empty text is 0, a
\* decimal literal (digits, at most one point, at least one digit) is its value,
\* anything else is NaN.
ToNumberText(t) ==
  LET points == {j \in 1..Len(t) : t[j] = "."}
      digits == {j \in 1..Len(t) : t[j] \in Digits}
  IN IF t = <<>> THEN Number(0, 1)
     ELSE IF points \cup digits # 1..Len(t) \/ Cardinality(points) > 1 \/ digits = {}
       THEN NaN
     ELSE IF points = {}
       THEN Number(DecimalValue(t), 1)
     ELSE LET p == CHOOSE j \in points : TRUE IN
          Number(DecimalValue(SubSeq(t, 1, p - 1) \o SubSeq(t, p + 1, Len(t))),
                 Power10(Len(t) - p))

\* parseInt(limit) and the number limit stands for in total / limit, with
\* limit = 20 when the query has none.
ParseInt(q) == IF q.given THEN ParseIntText(q.text) ELSE Number(DefaultLimit, 1)
ToNumber(q) == IF q.given THEN ToNumberText(q.text) ELSE Number(DefaultLimit, 1)

\* Math.ceil(total / x) for an integer total >= 0.
CeilDivide(total, x) ==
  IF x.kind = "NaN" THEN NaN
  ELSE IF x.num = 0 THEN (IF total = 0 THEN NaN ELSE Infinity)
  ELSE Number((total * x.den + x.num - 1) \div x.num, 1)

\* The pagination with the page count computed from parseInt(limit).
PaginationParsedLimit(total, q) ==
  [limit |-> ParseInt(q), total |-> total, pages |-> CeilDivide(total, ParseInt(q))]

\* pagination: {limit: parseInt(limit), total, pages: Math.ceil(total / limit)}
Pagination(total, q) ==
  [limit |-> ParseInt(q), total |-> total, pages |-> CeilDivide(total, ToNumber(q))]

\* GET / or GET /search reaches getAllContent or searchContent (the pagination
\* of a request uses nothing of an earlier request: one request is followed).
PageStart ==
  /\ page.pc = "none"
  /\ \E o \in {"list", "search"}, q \in LimitQueries :
       page' = [NoPage EXCEPT !.pc = "total", !.op = o, !.limit = q]
  /\ UNCHANGED <<content, versions, searchIndex, cache, reqs, last, started, deleteDone,
                 pending, views, app, http>>

\* await prisma.content.count({where})
ListCount ==
  /\ page.pc = "total" /\ page.op = "list"
  /\ \/ \E t \in 0..MaxTotal : page' = [page EXCEPT !.pc = "find", !.total = t]
     \/ page' = [page EXCEPT !.pc = "done", !.status = 500]
  /\ UNCHANGED <<content, versions, searchIndex, cache, reqs, last, started, deleteDone,
                 pending, views, app, http>>

\* await prisma.content.findMany({..., take: parseInt(limit)}); res.json(...)
ListFind ==
  /\ page.pc = "find"
  /\ \/ page' = [page EXCEPT !.pc = "done", !.status = 200,
                             !.pagination = Pagination(page.total, page.limit)]
     \/ page' = [page EXCEPT !.pc = "done", !.status = 500]
  /\ UNCHANGED <<content, versions, searchIndex, cache, reqs, last, started, deleteDone,
                 pending, views, app, http>>

\* await searchService.search({..., limit: parseInt(limit)}); res.json(...)
SearchCall ==
  /\ page.pc = "total" /\ page.op = "search"
  /\ \/ \E t \in 0..MaxTotal :
          page' = [page EXCEPT !.pc = "done", !.status = 200, !.total = t,
                               !.pagination = Pagination(t, page.limit)]
     \/ page' = [page EXCEPT !.pc = "done", !.status = 500]
  /\ UNCHANGED <<content, versions, searchIndex, cache, reqs, last, started, deleteDone,
                 pending, views, app, http>>

NextPage ==
  \/ PageStart
  \/ ListCount
  \/ ListFind
  \/ SearchCall

SpecPage == Init /\ [][NextPage]_vars

\* ------------------------------------------------------------------ getAllContent
\* req.query.status of GET /: absent, or a status.
StatusFilters == {"none", "draft", "published", "deleted"}

\* where of getAllContent built from the status filter alone: if (status)
\* where.status = status.
Where(row, filter) ==
  /\ row # NoItem
  /\ filter = "none" \/ row.status = filter

\* GET / with at most a status filter, first page, default limit.
StartList(r) ==
  /\ Arrives(r)
  /\ \E u \in Users, f \in StatusFilters :
       Continue(r, [Idle EXCEPT !.op = "list", !.user = u, !.filter = f, !.pc = "count"])

\* await prisma.content.count({where})
ListCountRows(r) ==
  LET q == reqs[r] IN
  /\ q.op = "list" /\ q.pc = "count"
  /\ \/ Continue(r, [q EXCEPT !.pc = "find",
                       !.total = Cardinality({i \in Ids : Where(content[i], q.filter)})])
     \/ Finish(r, Fail(q, "store"))
  /\ UNCHANGED <<content, versions, searchIndex, cache, started, deleteDone, pending, views, app, http, page>>

\* await prisma.content.findMany({where, skip, take, ...}); res.json(...)
ListFindRows(r) ==
  LET q == reqs[r] IN
  /\ q.op = "list" /\ q.pc = "find"
  /\ \/ Finish(r, [q EXCEPT !.pc = "done", !.status = 200,
                     !.rows = {content[i] : i \in {j \in Ids : Where(content[j], q.filter)}}])
     \/ Finish(r, Fail(q, "store"))
  /\ UNCHANGED <<content, versions, searchIndex, cache, started, deleteDone, pending, views, app, http, page>>

\* A Read, a List or a Delete reaches its handler.
StartVisible(r) ==
  /\ started < MaxRequests
  /\ started' = started + 1
  /\ \/ StartRead(r)
     \/ StartList(r)
     \/ StartDelete(r)

\* getContentById, getAllContent and deleteContent as concurrent requests.
NextVisible ==
  \E r \in Slots :
    \/ StartVisible(r)
    \/ ReadLoad(r)
    \/ ReadView(r)
    \/ ListCountRows(r)
    \/ ListFindRows(r)
    \/ DeleteLoad(r)
    \/ DeleteWrite(r)
    \/ DeleteSearch(r)
    \/ DeleteCacheItem(r)
    \/ DeleteCacheList(r)

SpecVisible == Init /\ [][NextVisible]_vars

\* ------------------------------------------------------------------ reads through the cache
\* Number of requests received in one behaviour of SpecCache.
MaxCacheRequests == 3

\* GET /:id reaches cacheMiddleware(300).
StartCachedRead(r) ==
  /\ Arrives(r)
  /\ \E u \in Users, i \in Ids :
       Continue(r, [Idle EXCEPT !.op = "read", !.id = i, !.user = u, !.pc = "cache"])

\* cacheMiddleware(300): a hit answers with the cached body, a miss calls next()
\* and getContentById runs.
CacheLookup(r) ==
  LET q == reqs[r]
      hit == CacheGet(cache, ItemKey(q.id)) IN
  /\ q.op = "read" /\ q.pc = "cache"
  /\ IF hit # NoItem
       THEN Finish(r, [q EXCEPT !.pc = "done", !.status = 200, !.data = hit, !.cached = "hit"])
       ELSE Continue(r, [q EXCEPT !.pc = "load", !.cached = "miss"])
  /\ UNCHANGED <<content, versions, searchIndex, cache, started, deleteDone, pending, views, app, http, page>>

StartCached(r) ==
  /\ started < MaxCacheRequests
  /\ started' = started + 1
  /\ \/ StartCachedRead(r)
     \/ StartUpdate(r)

\* No search, cache or notification call of the step fails.
SideEffectsSucceed == last'.thrown \notin {"search", "cache", "notify"}

\* GET /:id through the cache and updateContent as concurrent requests, with
\* every side-effect call succeeding.
NextCache ==
  \E r \in Slots :
    \/ StartCached(r)
    \/ CacheLookup(r)
    \/ ReadLoad(r)
    \/ ReadView(r)
    \/ UpdateLoad(r)
    \/ UpdateSnapshot(r)
    \/ UpdateWrite(r)
    \/ UpdateSearch(r) /\ SideEffectsSucceed
    \/ UpdateCacheItem(r) /\ SideEffectsSucceed
    \/ UpdateCacheList(r) /\ SideEffectsSucceed

SpecCache == Init /\ [][NextCache]_vars

\* ------------------------------------------------------------------ properties
Mutating == {"create", "update", "delete", "publish"}
ItemWrites == {"item.create", "item.update"}
StoreWrites == ItemWrites \cup {"version.create"}
CacheCalls == {"cache.item", "cache.list"}
DownstreamCalls == {"analyze", "search.index", "search.update", "search.delete", "notify"}
SideEffects == DownstreamCalls \cup CacheCalls

\* The step just taken has answered a request.
Answered == last.pc = "done"
Success == Answered /\ last.status \in {200, 201}
NoRequestInFlight == \A r \in Slots : reqs[r].pc = "idle"

\* C1: in Create, Update, Delete and Publish, when a call made after the
\* committed store write fails (search index, notification, cache invalidation),
\* the operation still answers success and the failure is only logged.
C1_DownstreamFailureStillSucceeds ==
  (/\ Answered
   /\ last.op \in Mutating
   /\ \E i \in DOMAIN last.effects : last.effects[i] \in ItemWrites
   /\ last.thrown \in {"search", "notify", "cache"})
  => last.status \in {200, 201}

\* C2: the version a successful Update has written is the version the store
\* held immediately before that write committed, plus exactly 1.
C2_UpdateIncrementsStoredVersion ==
  (Success /\ last.op = "update")
  => last.data.version = last.pre.version + 1

\* C3: for a successful Update there is a ContentVersion row whose title, body
\* and version are those the store held immediately before the write committed.
C3_SnapshotEqualsPreImage ==
  (Success /\ last.op = "update")
  => \E k \in DOMAIN versions :
       /\ versions[k].contentId = last.id
       /\ versions[k].title = last.pre.title
       /\ versions[k].body = last.pre.body
       /\ versions[k].version = last.pre.version

\* C4: an Update or Delete by a user who is neither the author nor an admin is
\* answered 403; the step that answers it changes no ContentItem, writes no
\* ContentVersion, and the request has issued no analysis, search or cache call.
Unauthorized(q) ==
  /\ content[q.id] # NoItem
  /\ content[q.id].authorId # q.user
  /\ Role(q.user) # "admin"

C4_ForbiddenStep(r) ==
  (/\ reqs[r].op \in {"update", "delete"}
   /\ reqs[r].pc = "load"
   /\ reqs'[r] # reqs[r]
   /\ Unauthorized(reqs[r])
   /\ last'.thrown # "store")
  => /\ last'.pc = "done"
     /\ last'.status = 403
     /\ last'.effects = <<>>
     /\ UNCHANGED <<content, versions, searchIndex, cache>>

C4_ForbiddenChangesNothing == [][\A r \in Slots : C4_ForbiddenStep(r)]_vars

C4_Witness ==
  /\ Answered
  /\ last.op \in {"update", "delete"}
  /\ last.status = 403
  /\ Unauthorized(last)

\* C5: when a Delete answers success the row of its item exists in the primary
\* store with status deleted and deletedAt non-null.
C5_SoftDelete ==
  (Success /\ last.op = "delete")
  => /\ content[last.id] # NoItem
     /\ content[last.id].status = "deleted"
     /\ content[last.id].deletedAt # Null

\* C6: whenever no request is in flight, an item whose Delete has answered
\* success and whose status is deleted has no SearchDocument.
C6_DeletedItemNotIndexed ==
  NoRequestInFlight
  => \A i \in deleteDone :
       content[i].status = "deleted" => searchIndex[i] = NoDoc

\* C7: a successful Create returns an item with status draft, version 1, the
\* requesting user as author, and as tags exactly the distinct names of the
\* input list (none when the request has no tags).
C7_CreateResult ==
  (Success /\ last.op = "create")
  => /\ last.status = 201
     /\ last.data.status = "draft"
     /\ last.data.version = 1
     /\ last.data.authorId = last.user
     /\ \A t \in TagNames :
          t \in last.data.tags
          <=> (last.input.tags.given /\ Contains(last.input.tags.list, t))
     /\ last.data.tags \subseteq TagNames

C7_Witness ==
  /\ Success
  /\ last.op = "create"
  /\ last.input.tags.given
  /\ Cardinality(last.data.tags) = 2
  /\ Len(last.input.tags.list) = 3

\* C8: a successful Publish of a draft item has written status published and a
\* non-null publishedAt, has called the notification dispatch exactly once and
\* has dispatched no analysis.
C8_PublishResult ==
  (Success /\ last.op = "publish" /\ last.pre.status = "draft")
  => /\ last.data.status = "published"
     /\ last.data.publishedAt # Null
     /\ Count(last.effects, "notify") = 1
     /\ ~Contains(last.effects, "analyze")

PublishCommits(r) ==
  /\ reqs[r].op = "publish"
  /\ reqs[r].pc = "write"
  /\ reqs'[r].pc = "notify"

C8_Step ==
  \A r \in Slots :
    (PublishCommits(r) /\ content[reqs[r].id].status = "draft")
    => /\ content'[reqs[r].id].status = "published"
       /\ content'[reqs[r].id].publishedAt # Null

C8_Publish == []C8_PublishResult /\ [][C8_Step]_vars

C8_Witness ==
  /\ Success
  /\ last.op = "publish"
  /\ last.pre.status = "draft"
  /\ last.pre.publishedAt = Null
  /\ content[last.id].status = "published"

\* C9: a request issues its cache invalidation only after its ContentItem write
\* and after every analysis, search-index or notification call of its
\* operation, and issues nothing but cache invalidation afterwards.
DownstreamOf(op) ==
  CASE op = "create" -> {"analyze", "search.index"}
    [] op = "update" -> {"analyze", "search.update"}
    [] op = "delete" -> {"search.delete"}
    [] op = "publish" -> {"notify"}
    [] OTHER -> {}

CacheLast(q) ==
  \A i \in DOMAIN q.effects :
    q.effects[i] \in CacheCalls
    => /\ \E j \in 1..(i - 1) : q.effects[j] \in ItemWrites
       /\ \A d \in DownstreamOf(q.op) : \E j \in 1..(i - 1) : q.effects[j] = d
       /\ \A k \in (i + 1)..Len(q.effects) : q.effects[k] \in CacheCalls

C9_CacheInvalidationLast ==
  /\ CacheLast(last)
  /\ \A r \in Slots : CacheLast(reqs[r])

C9_Witness ==
  /\ Success
  /\ last.op = "update"
  /\ last.effects =
       <<"version.create", "item.update", "analyze", "search.update", "cache.item", "cache.list">>

\* C10: the first effect a mutating request issues is a primary store write, no
\* analysis, search, notification or cache call precedes its ContentItem write,
\* and a request whose store call failed is answered with a failure and has
\* issued none of them.
StoreFirst(q) ==
  /\ q.effects # <<>> => q.effects[1] \in StoreWrites
  /\ \A i \in DOMAIN q.effects :
       q.effects[i] \in SideEffects
       => \E j \in 1..(i - 1) : q.effects[j] \in ItemWrites
  /\ (q.pc = "done" /\ q.thrown = "store")
       => /\ q.status = 500
          /\ \A i \in DOMAIN q.effects : q.effects[i] \notin SideEffects

C10_StoreWriteFirst ==
  /\ StoreFirst(last)
  /\ \A r \in Slots : StoreFirst(reqs[r])

C10_Witness ==
  /\ Answered
  /\ last.op = "update"
  /\ last.thrown = "store"
  /\ last.status = 500
  /\ last.effects = <<"version.create">>

\* C11: in Create and Update the analysis call is dispatched and not awaited: the
\* answer of a request that dispatched it fails only for a store, search or
\* cache failure, and the step that settles a call (a rejection is logged)
\* changes no stored item, no version row, no document and no request.
C11_Response ==
  (Answered /\ last.op \in {"create", "update"} /\ Contains(last.effects, "analyze"))
  => /\ last.status = 500 <=> last.thrown \in {"search", "cache"}
     /\ last.status \in {200, 201} <=> last.thrown = "none"

C11_Step ==
  \A i \in Ids :
    pending'[i] < pending[i]
    => /\ UNCHANGED <<content, versions, searchIndex, cache, reqs>>
       /\ last' \in {NoResponse, AnalysisErrorLogged(i)}

C11_FireAndForget == []C11_Response /\ [][C11_Step]_vars

C11_Witness ==
  /\ Success
  /\ last.op = "update"
  /\ Contains(last.effects, "analyze")
  /\ pending[last.id] > 0

\* C12: the response of a mutating operation does not wait on a downstream call:
\* once the ContentItem write of a request has committed, the request is
\* eventually answered, even if its search, notification or cache call never
\* completes.
Committed(r) == \E i \in DOMAIN reqs[r].effects : reqs[r].effects[i] \in ItemWrites

C12_ResponseDoesNotWait ==
  \A r \in Slots : Committed(r) ~> (reqs[r].pc = "idle")

\* C13: a Read of an existing id answers 200 with the item it read whether or
\* not the insert of the view record fails, and no step of a Read changes a
\* ContentItem.
C13_ReadResult ==
  (Answered /\ last.op = "read" /\ content[last.id] # NoItem /\ last.thrown # "store")
  => /\ last.status = 200
     /\ last.data # NoItem
     /\ last.data = last.existing
     /\ last.thrown \in {"none", "view"}

C13_Step ==
  \A r \in Slots :
    (reqs[r].op = "read" /\ reqs'[r] # reqs[r]) => content' = content

C13_ReadIgnoresViewFailure == []C13_ReadResult /\ [][C13_Step]_vars

C13_Witness ==
  /\ Answered
  /\ last.op = "read"
  /\ last.thrown = "view"
  /\ last.status = 200
  /\ last.data = content[last.id]
  /\ views = <<>>

\* C14: a Read, Update or Delete of an id the store does not hold is answered 404
\* and has issued no store write and no search or cache call; no version row,
\* view row or document belongs to an id the store does not hold.
C14_NotFound ==
  /\ (/\ Answered
      /\ last.op \in {"read", "update", "delete"}
      /\ content[last.id] = NoItem
      /\ last.thrown # "store")
     => /\ last.status = 404
        /\ last.effects = <<>>
  /\ \A k \in DOMAIN versions : content[versions[k].contentId] # NoItem
  /\ \A k \in DOMAIN views : content[views[k].contentId] # NoItem
  /\ \A i \in Ids : content[i] = NoItem => searchIndex[i] = NoDoc

C14_Witness ==
  /\ Answered
  /\ last.op = "read"
  /\ content[last.id] = NoItem
  /\ last.status = 404
  /\ started = 2

\* The request has ended: it was answered, or its connection was refused.
Ended == http.pc \in {"done", "refused"}

\* C15: a GET of /api/v1/content/search is dispatched to searchContent.
C15_SearchReachesSearchContent ==
  (Ended /\ http.method = "GET" /\ http.path = SearchPath)
  => http.handler = "searchContent"

\* C19: a mutation request (create, update, delete, publish) that has ended was
\* refused by a layer, or ran the permission layer, then the schema layer, then
\* its controller.
MutationHandlers == {"createContent", "updateContent", "deleteContent", "publishContent"}

C19_PermissionThenValidation ==
  (Ended /\ \E name \in MutationHandlers : RoutedTo(name, http.method, http.path))
  => \/ http.rejected # "none" /\ http.handler = "none"
     \/ \E j, k, i \in DOMAIN http.trace :
          /\ j < k /\ k < i
          /\ http.trace[j] = "checkPermission"
          /\ http.trace[k] = "validateContent"
          /\ http.trace[i] \in MutationHandlers

\* C20: a request to /graphql is answered by the Apollo middleware, not by the
\* 404 handler.
C20_GraphqlReachesApollo ==
  (Ended /\ http.path = GraphqlPath) => http.by = "apollo"

\* C16: a successful Create, Update, Delete or Publish has issued a search-index
\* call for its item, and when it was the only request and nothing failed the
\* SearchDocument of the item is the stored item (none for a deleted item).
SearchCalls == {"search.index", "search.update", "search.delete"}

C16_MutationReachesSearchIndex ==
  (Success /\ last.op \in Mutating)
  => /\ \E i \in DOMAIN last.effects : last.effects[i] \in SearchCalls
     /\ (started = 1 /\ NoRequestInFlight)
          => searchIndex[last.id] = IF content[last.id].status = "deleted"
                                      THEN NoDoc
                                      ELSE content[last.id]

\* C17: no step lowers the version stored for a content item.
C17_Step ==
  \A i \in Ids :
    content[i] # NoItem => content'[i].version >= content[i].version

C17_VersionNeverDecreases == [][C17_Step]_vars

\* C18: a List or Search answered with success for a limit the handler accepts
\* (parseInt(limit) is a positive integer, the limit it returns and takes)
\* returns pages = ceil(total / limit), which is 0 for total = 0.
AcceptedLimit(q) == ParseInt(q).kind = "number" /\ ParseInt(q).num >= 1

C18_PagesIsCeiling ==
  (page.pc = "done" /\ page.status = 200 /\ AcceptedLimit(page.limit))
  => /\ page.pagination.pages =
          Number((page.total + ParseInt(page.limit).num - 1) \div ParseInt(page.limit).num, 1)
     /\ page.total = 0 => page.pagination.pages = Number(0, 1)

\* C21: within one Update the item is loaded first, then the ContentVersion row
\* of the loaded title, body and version is written, and the ContentItem update
\* is issued only after that row is in the store.
HasSnapshotOf(q) ==
  \E k \in DOMAIN versions :
    /\ versions[k].contentId = q.id
    /\ versions[k].title = q.existing.title
    /\ versions[k].body = q.existing.body
    /\ versions[k].version = q.existing.version

UpdateInSequence(q) ==
  q.op = "update"
  => /\ q.pc \in {"snapshot", "write", "search", "cacheItem", "cacheList"}
          => q.existing # NoItem
     /\ q.pc = "snapshot" => q.effects = <<>>
     /\ q.pc = "write" => (q.effects = <<"version.create">> /\ HasSnapshotOf(q))
     /\ Contains(q.effects, "item.update")
          => /\ Len(q.effects) >= 2
             /\ q.effects[1] = "version.create"
             /\ q.effects[2] = "item.update"
             /\ Count(q.effects, "version.create") = 1
             /\ Count(q.effects, "item.update") = 1
             /\ q.existing # NoItem
             /\ HasSnapshotOf(q)

C21_UpdateStoreStepsInSequence ==
  /\ UpdateInSequence(last)
  /\ \A r \in Slots : UpdateInSequence(reqs[r])

C21_Witness ==
  \E r \in Slots :
    /\ reqs[r].op = "update"
    /\ reqs[r].pc = "search"
    /\ reqs[r].effects = <<"version.create", "item.update">>
    /\ HasSnapshotOf(reqs[r])
    /\ content[reqs[r].id].version = reqs[r].existing.version + 1

\* C22: when a Create, Update, Delete or Publish answers with a failure, the
\* request has written no ContentItem and no ContentVersion row.
C22_FailureLeavesStoreUnchanged ==
  (Answered /\ last.op \in Mutating /\ last.status >= 400)
  => \A i \in DOMAIN last.effects : last.effects[i] \notin StoreWrites

\* C23: the deletedAt of a stored item is non-null exactly when its status is
\* deleted.
C23_DeletedAtIffStatusDeleted ==
  \A i \in Ids :
    content[i] # NoItem
    => (content[i].deletedAt # Null <=> content[i].status = "deleted")

\* C24: no two ContentVersion rows of the same contentId carry the same version.
C24_VersionRowsDistinct ==
  \A j, k \in DOMAIN versions :
    (j # k /\ versions[j].contentId = versions[k].contentId)
    => versions[j].version # versions[k].version

\* C26: a request that has changed a content item was made by the item's author
\* or by an admin, for Publish as for Update and Delete.
ChangedByAuthorOrAdmin(q) ==
  (q.op \in {"update", "delete", "publish"} /\ Contains(q.effects, "item.update"))
  => (q.pre.authorId = q.user \/ Role(q.user) = "admin")

C26_OnlyAuthorOrAdminChanges ==
  /\ ChangedByAuthorOrAdmin(last)
  /\ \A r \in Slots : ChangedByAuthorOrAdmin(reqs[r])

\* C27: a Read answered with success does not return a soft-deleted item, and a
\* List without a status filter returns none.
C27_DeletedItemNotReturned ==
  /\ (Success /\ last.op = "read") => last.data.deletedAt = Null
  /\ (Success /\ last.op = "list" /\ last.filter = "none")
       => \A row \in last.rows : row.deletedAt = Null

\* C25: with no side-effect call failing, once every Update of an item has
\* answered, a read answered from the cache returns the stored item, not content
\* from before an Update.
UpdateInFlight(i) ==
  \E r \in Slots : reqs[r].op = "update" /\ reqs[r].id = i /\ reqs[r].pc # "idle"

C25_NoStaleCachedRead ==
  (/\ Success
   /\ last.op = "read"
   /\ last.cached = "hit"
   /\ ~UpdateInFlight(last.id))
  => last.data = content[last.id]
====
